---- MODULE Spec2Model ----
(***************************************************************************)
(* Share-link subsystem of cloudpix-server: the share-link and file        *)
(* repositories over the document store, the share-link and file services  *)
(* on top of them, and the clock.  Every request is a process; one action  *)
(* is the code that runs between two awaited store or blob calls.          *)
(* Time is counted in whole seconds (UTC, so a calendar day is 24 hours).  *)
(***************************************************************************)
EXTENDS Integers, Sequences, FiniteSets, TLC

\* ---------------------------------------------------------------- bounds
MaxProcs == 2        \* requests in flight at the same time (RaceSpec)
MaxFiles == 1        \* uploaded files
MaxUsers == 2        \* registered users
MaxLinks == 1        \* share links ever created (Spec, RaceSpec)
MaxStoreLinks == 2   \* share links ever created (StoreSpec)
MaxAccess == 2       \* cap of accessCount
MaxTicks == 2        \* clock advances (Spec)

\* ------------------------------------------------------ program constants
HourSeconds == 3600
DaySeconds == 86400
SasCeilingHours == 24
SasFloorHours == 1

Procs == 1..MaxProcs
FileIds == 1..MaxFiles
UserIds == 1..MaxUsers
LinkIds == 1..MaxStoreLinks

\* expirationDays of a create request: absent (<<>>) or a number of days.
AllowedDays == {1, 7, 30}

\* Numbers a request body can carry as well: the route hands expirationDays
\* to the service as it came.
OtherDays == {0, -1, 2}

DaysInputs == {<<>>} \cup {<<d>> : d \in AllowedDays \cup OtherDays}

\* What the clock may advance by in one step.
Deltas == {1, DaySeconds, 30 * DaySeconds}

\* Outcome of one store or blob call: it answers, it fails, or it fails with
\* the status code 404.
Faults == {"none", "error", "notfound404"}

VARIABLES
  now,         \* the clock (new Date()), seconds
  ticks,       \* number of clock advances so far
  shareLinks,  \* ShareLinks container: set of share-link documents
  files,       \* Files container: set of file documents
  blobs,       \* blob container: fileIds whose blob is stored
  createLog,   \* history: per linkId handed out, the expirationDays asked
               \* for and the time of the request
  purged,      \* history: linkIds of the documents the store's ttl removed
  accessLog,   \* history: per linkId, the resolutions that returned to the
               \* caller with the file and the download URL
  procs,       \* the requests in flight, with their locals and results
  probe        \* input and verdict of a stand-alone isShareLinkValid call

vars ==
  <<now, ticks, shareLinks, files, blobs, createLog, purged, accessLog, procs,
    probe>>

\* ------------------------------------------------------------ data model
\* IShareLink (plus ts, the store's last-write time of the document).
\* expiryDate and ttl are optional values: <<>> (absent) or <<v>>.
ShareLink(linkId, fileId, userId, expiryDate, createdDate, ttl) ==
  [linkId |-> linkId, fileId |-> fileId, userId |-> userId,
   expiryDate |-> expiryDate, accessCount |-> 0, createdDate |-> createdDate,
   isRevoked |-> FALSE, ttl |-> ttl, ts |-> createdDate]

\* The file a request names in its path: one of the bound or a stored one.
FileInputs == FileIds \cup {f.fileId : f \in files}

\* IFile; the owner of an uploaded file.
FileOwner(fileId) == ((fileId - 1) % MaxUsers) + 1

\* The name a file is uploaded under, and the names a rename may ask for:
\* another name, the same with blanks around it, and two empty ones.
UploadName == "a.jpg"
NameInputs == {"b.jpg", " b.jpg ", "a.jpg", "", " "}

\* String.trim on the names above.
trim(fileName) ==
  IF fileName = " b.jpg " THEN "b.jpg"
  ELSE IF fileName = " " THEN ""
  ELSE fileName

\* Hours of the access token uploadBlob puts into the stored blobUrl.
UploadSasHours == 24 * 365

\* The stored blobUrl: the blob's address with the token minted at upload.
BlobUrl(fileId) ==
  [fileId |-> fileId, hours |-> UploadSasHours,
   expiresOn |-> UploadSasHours * HourSeconds]

File(fileId) ==
  [fileId |-> fileId, userId |-> FileOwner(fileId), fileName |-> UploadName,
   blobUrl |-> BlobUrl(fileId), fileSize |-> 1, contentType |-> "image/jpeg",
   uploadDate |-> 0, status |-> "active"]

\* A request: its operation, its position, its arguments, its locals
\* (shareLink and file as read by the service, doc the document a repository
\* call is about to write, todo the links a cascade still has to delete,
\* listing the links a listing returns),
\* the clock value when it started, whether one of its store or blob calls
\* failed, and its outcome.
IdleProc ==
  [op |-> "none", pc |-> "idle", linkId |-> 0, fileId |-> 0, userId |-> 0,
   shareLink |-> <<>>, file |-> <<>>, doc |-> <<>>, todo |-> {},
   downloadUrl |-> <<>>, listing |-> {}, at |-> 0, faulted |-> FALSE,
   result |-> ""]

Request(op, linkId, fileId, userId) ==
  [IdleProc EXCEPT !.op = op, !.linkId = linkId, !.fileId = fileId,
                   !.userId = userId, !.at = now]

Done(req, result) == [req EXCEPT !.pc = "done", !.result = result]

\* The request after a store or blob call that ended as fault says.
After(req, fault) == [req EXCEPT !.faulted = @ \/ fault # "none"]

\* -------------------------------------------------- CosmosShareLinkRepo
\* Result of a repository read: it threw, or it returned <<>> (null) or <<doc>>.
Threw == [err |-> TRUE, val |-> <<>>]
Returned(val) == [err |-> FALSE, val |-> val]

\* Mutant: the query loses its WHERE clause.
getShareLinkById_AnyLink(linkId, fault) ==
  IF fault = "notfound404" THEN Returned(<<>>)
  ELSE IF fault = "error" THEN Threw
  ELSE IF shareLinks = {} THEN Returned(<<>>)
  ELSE Returned(<<CHOOSE l \in shareLinks : TRUE>>)

getShareLinkById(linkId, fault) ==
  LET resources == {l \in shareLinks : l.linkId = linkId} IN
  IF fault = "notfound404" THEN Returned(<<>>)
  ELSE IF fault = "error" THEN Threw
  ELSE IF resources = {} THEN Returned(<<>>)
  ELSE Returned(<<CHOOSE l \in resources : TRUE>>)

getShareLinksByFileId(fileId) ==
  {l \in shareLinks : l.fileId = fileId /\ l.isRevoked = FALSE}

\* Mutant: the query has no WHERE clause.
getShareLinksByUserId_All(userId) == shareLinks

getShareLinksByUserId(userId) == {l \in shareLinks : l.userId = userId}

\* Mutant: the expiry test is <= for <, so the link is invalid at its expiry.
isShareLinkValid_InvalidAtExpiry(shareLink, clock) ==
  IF shareLink.isRevoked THEN FALSE
  ELSE IF shareLink.expiryDate # <<>> /\ shareLink.expiryDate[1] <= clock
       THEN FALSE
  ELSE TRUE

isShareLinkValid(shareLink, clock) ==
  IF shareLink.isRevoked THEN FALSE
  ELSE IF shareLink.expiryDate # <<>> /\ shareLink.expiryDate[1] < clock
       THEN FALSE
  ELSE TRUE

\* Mutant: the flag is flipped.
Revoked_Flipped(shareLink) == [shareLink EXCEPT !.isRevoked = ~@]

\* shareLink.isRevoked = true
Revoked(shareLink) == [shareLink EXCEPT !.isRevoked = TRUE]

\* Mutant: an access gives the link one more day.
Incremented_Extended(shareLink) ==
  [shareLink EXCEPT !.accessCount = @ + 1,
                    !.expiryDate = <<@[1] + DaySeconds>>]

\* Mutant: the count read is dropped, every access stores 1.
Incremented_FromZero(shareLink) == [shareLink EXCEPT !.accessCount = 1]

\* shareLink.accessCount = (shareLink.accessCount || 0) + 1
Incremented(shareLink) == [shareLink EXCEPT !.accessCount = @ + 1]

\* Mutant: the document replaces the whole container.
Replaced_Alone(doc) == {[doc EXCEPT !.ts = now]}

\* Mutant: the document is stored beside the one it should replace.
Replaced_Added(doc) == shareLinks \cup {[doc EXCEPT !.ts = now]}

\* container.item(id, linkId).replace(doc): the stored document with that id
\* is replaced as a whole; the store stamps the write time.
Replaced(doc) ==
  {l \in shareLinks : l.linkId # doc.linkId} \cup {[doc EXCEPT !.ts = now]}

Stored(linkId) == \E l \in shareLinks : l.linkId = linkId

\* ------------------------------------------------------ CosmosFileRepo
getFileById(fileId, fault) ==
  LET resources == {f \in files : f.fileId = fileId} IN
  IF fault = "notfound404" THEN Returned(<<>>)
  ELSE IF fault = "error" THEN Threw
  ELSE IF resources = {} THEN Returned(<<>>)
  ELSE Returned(<<CHOOSE f \in resources : TRUE>>)

\* ----------------------------------------------------- ShareLinkService
\* Mutant: the status of the file is not looked at.
FileMissing_IgnoresStatus(file) == file = <<>>

\* !file || file.status !== 'active'
FileMissing(file) == file = <<>> \/ file[1].status # "active"

\* Mutant: the duration is added as hours (setHours for setDate).
calculateExpiryDate_Hours(expirationDays, clock) ==
  IF expirationDays = <<>> \/ expirationDays[1] = 0 THEN <<>>
  ELSE <<clock + expirationDays[1] * HourSeconds>>

\* new Date() moved on by expirationDays calendar days (setDate).
calculateExpiryDate(expirationDays, clock) ==
  IF expirationDays = <<>> \/ expirationDays[1] = 0 THEN <<>>
  ELSE <<clock + expirationDays[1] * DaySeconds>>

\* Mutant: the difference is stored whatever its sign.
calculateTTL_AnySign(expiryDate, clock) ==
  IF expiryDate = <<>> THEN <<>>
  ELSE <<expiryDate[1] - clock>>

\* The three clock reads of createShareLink happen in one synchronous stretch
\* of code: they give the same second.
calculateTTL(expiryDate, clock) ==
  IF expiryDate = <<>> THEN <<>>
  ELSE LET diffInSeconds == expiryDate[1] - clock IN
       IF diffInSeconds > 0 THEN <<diffInSeconds>> ELSE <<>>

\* Mutant: createdDate takes the value of expiryDate.
NewShareLink_CreatedAtExpiry(linkId, fileId, userId, expirationDays, clock) ==
  LET expiryDate == calculateExpiryDate(expirationDays, clock)
      ttl == calculateTTL(expiryDate, clock)
      stored == IF expiryDate # <<>> THEN expiryDate ELSE <<clock>>
  IN ShareLink(linkId, fileId, userId, stored, stored[1], ttl)

\* expiryDate: expiryDate || new Date()
NewShareLink(linkId, fileId, userId, expirationDays, clock) ==
  LET expiryDate == calculateExpiryDate(expirationDays, clock)
      ttl == calculateTTL(expiryDate, clock)
  IN ShareLink(linkId, fileId, userId,
               IF expiryDate # <<>> THEN expiryDate ELSE <<clock>>,
               clock, ttl)

\* Mutant: no Math.max(1, ...) around the hours until expiry.
SasExpirationHours_NoFloor(shareLink, clock) ==
  LET diff == (shareLink.expiryDate[1] - clock) \div HourSeconds
  IN IF diff < SasCeilingHours THEN diff ELSE SasCeilingHours

\* hoursUntilExpiry and sasExpirationHours of getFileByShareLink.
SasExpirationHours(shareLink, clock) ==
  LET diff == (shareLink.expiryDate[1] - clock) \div HourSeconds
      hoursUntilExpiry == IF diff > SasFloorHours THEN diff ELSE SasFloorHours
  IN IF hoursUntilExpiry < SasCeilingHours THEN hoursUntilExpiry
     ELSE SasCeilingHours

\* BlobService.generateBlobSASUrl: a read-only URL of the file's blob that
\* stops working expiresInHours after the clock value it was made at.
generateBlobSASUrl(fileId, expiresInHours, clock) ==
  [fileId |-> fileId, hours |-> expiresInHours,
   expiresOn |-> clock + expiresInHours * HourSeconds]

\* ------------------------------------------------------------------ Init
NoProbe == [shareLink |-> <<>>, verdict |-> <<>>]

Init ==
  /\ now = 0
  /\ ticks = 0
  /\ shareLinks = {}
  /\ files = {File(f) : f \in FileIds}
  /\ blobs = FileIds
  /\ createLog = <<>>
  /\ purged = {}
  /\ accessLog = [l \in LinkIds |-> 0]
  /\ procs = [p \in Procs |-> IdleProc]
  /\ probe = NoProbe

Idle(p) == procs[p].pc = "idle"

SetProc(p, req) == procs' = [procs EXCEPT ![p] = req]

\* What a failed repository call of the request in progress is reported as:
\* incrementAccessCount and revokeShareLink catch every error of their body
\* and throw their own.
RepoFailure(req) ==
  IF req.op = "getFileByShareLink" THEN "Failed to increment access count"
  ELSE "Failed to revoke share link"

\* ------------------------------------- ShareLinkService.getFileByShareLink
\* Who asks for a resolution: the route takes no token, so anybody, a user or
\* not (0).
Callers == {0} \cup UserIds

\* Mutant: only the owner of the link may resolve it.
GetFileByShareLink_Lookup_OwnerOnly(p, faults) ==
  /\ Idle(p)
  /\ \E linkId \in LinkIds, caller \in Callers, fault \in faults :
       LET req == After(Request("getFileByShareLink", linkId, 0, caller), fault)
           r == getShareLinkById(linkId, fault)
       IN /\ \A l \in shareLinks : l.linkId = linkId => l.accessCount < MaxAccess
          /\ SetProc(p,
               IF r.err THEN Done(req, "Failed to get share link")
               ELSE IF r.val = <<>> THEN Done(req, "Share link not found")
               ELSE IF r.val[1].userId # caller
                    THEN Done([req EXCEPT !.shareLink = r.val],
                              "Unauthorized access")
               ELSE IF ~isShareLinkValid(r.val[1], now)
                    THEN Done([req EXCEPT !.shareLink = r.val],
                              "Share link is expired or revoked")
               ELSE [req EXCEPT !.pc = "r_file", !.shareLink = r.val])
  /\ UNCHANGED <<now, ticks, shareLinks, files, blobs, createLog, purged, accessLog, probe>>

\* getShareLinkById, then the validity check.
GetFileByShareLink_Lookup(p, faults) ==
  /\ Idle(p)
  /\ \E linkId \in LinkIds, caller \in Callers, fault \in faults :
       LET req == After(Request("getFileByShareLink", linkId, 0, caller), fault)
           r == getShareLinkById(linkId, fault)
       IN /\ \A l \in shareLinks : l.linkId = linkId => l.accessCount < MaxAccess
          /\ SetProc(p,
               IF r.err THEN Done(req, "Failed to get share link")
               ELSE IF r.val = <<>> THEN Done(req, "Share link not found")
               ELSE IF ~isShareLinkValid(r.val[1], now)
                    THEN Done([req EXCEPT !.shareLink = r.val],
                              "Share link is expired or revoked")
               ELSE [req EXCEPT !.pc = "r_file", !.shareLink = r.val])
  /\ UNCHANGED <<now, ticks, shareLinks, files, blobs, createLog, purged, accessLog, probe>>

\* Mutant: the access is recorded before the URL is minted.
GetFileByShareLink_File_CountsFirst(p, faults) ==
  /\ procs[p].pc = "r_file"
  /\ \E fault \in faults, mint \in faults \ {"notfound404"} :
       LET req == After(After(procs[p], fault), mint)
           r == getFileById(req.shareLink[1].fileId, fault)
       IN IF r.err
          THEN /\ SetProc(p, Done(After(procs[p], fault), "Failed to get file"))
               /\ UNCHANGED shareLinks
          ELSE IF FileMissing(r.val)
          THEN /\ SetProc(p, Done([After(procs[p], fault) EXCEPT !.file = r.val],
                                  "File not found or deleted"))
               /\ UNCHANGED shareLinks
          ELSE /\ shareLinks' =
                    {IF l.linkId = req.linkId THEN Incremented(l) ELSE l :
                       l \in shareLinks}
               /\ SetProc(p,
                    IF mint # "none"
                    THEN Done([req EXCEPT !.file = r.val],
                              "Failed to generate blob access URL")
                    ELSE [req EXCEPT !.pc = "u_read", !.file = r.val,
                            !.downloadUrl =
                               <<generateBlobSASUrl(r.val[1].fileId,
                                   SasExpirationHours(req.shareLink[1], now),
                                   now)>>])
  /\ UNCHANGED <<now, ticks, files, blobs, createLog, purged, accessLog, probe>>

\* Mutant: when no URL can be minted the stored blobUrl is handed out.
GetFileByShareLink_File_StoredUrl(p, faults) ==
  /\ procs[p].pc = "r_file"
  /\ \E fault \in faults, mint \in faults \ {"notfound404"} :
       LET req == After(After(procs[p], fault), mint)
           r == getFileById(req.shareLink[1].fileId, fault)
       IN SetProc(p,
            IF r.err THEN Done(After(procs[p], fault), "Failed to get file")
            ELSE IF FileMissing(r.val)
                 THEN Done([After(procs[p], fault) EXCEPT !.file = r.val],
                           "File not found or deleted")
            ELSE [req EXCEPT !.pc = "u_read", !.file = r.val,
                    !.downloadUrl =
                       IF mint # "none" THEN <<r.val[1].blobUrl>>
                       ELSE <<generateBlobSASUrl(r.val[1].fileId,
                                SasExpirationHours(req.shareLink[1], now),
                                now)>>])
  /\ UNCHANGED <<now, ticks, shareLinks, files, blobs, createLog, purged, accessLog, probe>>

\* FileRepo.getFileById, the file check, then getBlobUrl with the SAS lifetime.
GetFileByShareLink_File(p, faults) ==
  /\ procs[p].pc = "r_file"
  /\ \E fault \in faults, mint \in faults \ {"notfound404"} :
       LET req == After(After(procs[p], fault), mint)
           r == getFileById(req.shareLink[1].fileId, fault)
       IN SetProc(p,
            IF r.err THEN Done(After(procs[p], fault), "Failed to get file")
            ELSE IF FileMissing(r.val)
                 THEN Done([After(procs[p], fault) EXCEPT !.file = r.val],
                           "File not found or deleted")
            ELSE IF mint # "none"
                 THEN Done([req EXCEPT !.file = r.val],
                           "Failed to generate blob access URL")
            ELSE [req EXCEPT !.pc = "u_read", !.file = r.val,
                    !.downloadUrl =
                       <<generateBlobSASUrl(r.val[1].fileId,
                           SasExpirationHours(req.shareLink[1], now), now)>>])
  /\ UNCHANGED <<now, ticks, shareLinks, files, blobs, createLog, purged, accessLog, probe>>

\* ---------------------------------------- ShareLinkService.revokeShareLink
\* Mutant: the caller is compared with the owner of the file as it is now.
RevokeShareLink_Lookup_ByFileOwner(p, faults) ==
  /\ Idle(p)
  /\ \E linkId \in LinkIds, userId \in UserIds, fault \in faults :
       LET req == After(Request("revokeShareLink", linkId, 0, userId), fault)
           r == getShareLinkById(linkId, fault)
           owners == IF r.val = <<>> THEN {}
                     ELSE {f.userId : f \in {g \in files :
                                               g.fileId = r.val[1].fileId}}
       IN SetProc(p,
            IF r.err THEN Done(req, "Failed to get share link")
            ELSE IF r.val = <<>> THEN Done(req, "Share link not found")
            ELSE IF userId \notin owners
                 THEN Done([req EXCEPT !.shareLink = r.val], "Unauthorized access")
            ELSE [req EXCEPT !.pc = "u_read", !.shareLink = r.val])
  /\ UNCHANGED <<now, ticks, shareLinks, files, blobs, createLog, purged, accessLog, probe>>

\* getShareLinkById, then the ownership check against the stored userId.
RevokeShareLink_Lookup(p, faults) ==
  /\ Idle(p)
  /\ \E linkId \in LinkIds, userId \in UserIds, fault \in faults :
       LET req == After(Request("revokeShareLink", linkId, 0, userId), fault)
           r == getShareLinkById(linkId, fault)
       IN SetProc(p,
            IF r.err THEN Done(req, "Failed to get share link")
            ELSE IF r.val = <<>> THEN Done(req, "Share link not found")
            ELSE IF r.val[1].userId # userId
                 THEN Done([req EXCEPT !.shareLink = r.val], "Unauthorized access")
            ELSE [req EXCEPT !.pc = "u_read", !.shareLink = r.val])
  /\ UNCHANGED <<now, ticks, shareLinks, files, blobs, createLog, purged, accessLog, probe>>

\* ------------- CosmosShareLinkRepo.revokeShareLink / incrementAccessCount
\* Mutant: an access is counted twice.
RepoRead_CountsTwice(p, faults) ==
  /\ procs[p].pc = "u_read"
  /\ \E fault \in faults :
       LET req == After(procs[p], fault)
           r == getShareLinkById(req.linkId, fault)
       IN SetProc(p,
            IF r.err \/ r.val = <<>> THEN Done(req, RepoFailure(req))
            ELSE [req EXCEPT !.pc = "u_exist",
                    !.doc = IF req.op = "getFileByShareLink"
                            THEN <<Incremented(Incremented(r.val[1]))>>
                            ELSE <<Revoked(r.val[1])>>])
  /\ UNCHANGED <<now, ticks, shareLinks, files, blobs, createLog, purged, accessLog, probe>>

\* The repository reads the document again and changes its own copy.
RepoRead(p, faults) ==
  /\ procs[p].pc = "u_read"
  /\ \E fault \in faults :
       LET req == After(procs[p], fault)
           r == getShareLinkById(req.linkId, fault)
       IN SetProc(p,
            IF r.err \/ r.val = <<>> THEN Done(req, RepoFailure(req))
            ELSE [req EXCEPT !.pc = "u_exist",
                    !.doc = IF req.op = "getFileByShareLink"
                            THEN <<Incremented(r.val[1])>>
                            ELSE <<Revoked(r.val[1])>>])
  /\ UNCHANGED <<now, ticks, shareLinks, files, blobs, createLog, purged, accessLog, probe>>

\* updateShareLink: getShareLinkById for the id of the stored document.
UpdateShareLink_Exist(p, faults) ==
  /\ procs[p].pc = "u_exist"
  /\ \E fault \in faults :
       LET req == After(procs[p], fault)
           r == getShareLinkById(req.linkId, fault)
       IN SetProc(p,
            IF r.err \/ r.val = <<>> THEN Done(req, RepoFailure(req))
            ELSE [req EXCEPT !.pc = "u_replace"])
  /\ UNCHANGED <<now, ticks, shareLinks, files, blobs, createLog, purged, accessLog, probe>>

\* updateShareLink: replace of the whole document; the request then returns.
UpdateShareLink_Replace(p, faults) ==
  /\ procs[p].pc = "u_replace"
  /\ \E fault \in faults :
       LET req == After(procs[p], fault) IN
       IF fault = "none" /\ Stored(req.linkId)
       THEN /\ shareLinks' = Replaced(req.doc[1])
            /\ SetProc(p, Done(req, "OK"))
            /\ accessLog' = IF req.op = "getFileByShareLink"
                            THEN [accessLog EXCEPT ![req.linkId] = @ + 1]
                            ELSE accessLog
       ELSE /\ SetProc(p, Done(req, RepoFailure(req)))
            /\ UNCHANGED <<shareLinks, accessLog>>
  /\ UNCHANGED <<now, ticks, files, blobs, createLog, purged, probe>>

\* ---------------------------------------- ShareLinkService.createShareLink
\* Mutant: the status of the file is checked before its owner.
CreateChecks_StatusFirst(r, userId) ==
  IF r.err THEN "Failed to get file"
  ELSE IF r.val = <<>> THEN "File not found"
  ELSE IF r.val[1].status # "active" THEN "Cannot share deleted file"
  ELSE IF r.val[1].userId # userId THEN "Unauthorized access to file"
  ELSE ""

\* The checks on the file read, in the order of the code: the message thrown,
\* or "" when the file passes.
CreateChecks(r, userId) ==
  IF r.err THEN "Failed to get file"
  ELSE IF r.val = <<>> THEN "File not found"
  ELSE IF r.val[1].userId # userId THEN "Unauthorized access to file"
  ELSE IF r.val[1].status # "active" THEN "Cannot share deleted file"
  ELSE ""

\* FileRepo.getFileById, the three checks, then the new document (uuidv4 is
\* the next unused linkId).  limit caps the links ever created.
CreateShareLink_File(p, limit, faults) ==
  /\ Idle(p)
  /\ Len(createLog) < limit
  /\ \E fileId \in FileInputs, userId \in UserIds, expirationDays \in DaysInputs,
        fault \in faults :
       LET linkId == Len(createLog) + 1
           req == After(Request("createShareLink", 0, fileId, userId), fault)
           r == getFileById(fileId, fault)
           failure == CreateChecks(r, userId)
       IN IF failure # ""
          THEN /\ SetProc(p, Done(req, failure))
               /\ UNCHANGED createLog
          ELSE /\ SetProc(p, [req EXCEPT !.pc = "c_insert", !.linkId = linkId,
                                 !.file = r.val,
                                 !.doc = <<NewShareLink(linkId, fileId, userId,
                                             expirationDays, now)>>])
               /\ createLog' = Append(createLog,
                                   [days |-> expirationDays, at |-> now])
  /\ UNCHANGED <<now, ticks, shareLinks, files, blobs, purged, accessLog, probe>>

\* ShareLinkRepo.createShareLink: container.items.create; the store stamps
\* the document with the time of the write.
CreateShareLink_Insert(p, faults) ==
  /\ procs[p].pc = "c_insert"
  /\ \E fault \in faults :
       LET req == After(procs[p], fault)
           resource == [req.doc[1] EXCEPT !.ts = now]
       IN
       IF fault = "none"
       THEN /\ shareLinks' = shareLinks \cup {resource}
            /\ SetProc(p, Done([req EXCEPT !.shareLink = <<resource>>], "OK"))
       ELSE /\ SetProc(p, Done(req, "Failed to create share link"))
            /\ UNCHANGED shareLinks
  /\ UNCHANGED <<now, ticks, files, blobs, createLog, purged, accessLog, probe>>

\* ------------------------------------------------- FileService.deleteFile
\* FileRepo.getFileById and the ownership check.
DeleteFile_File(p, faults) ==
  /\ Idle(p)
  /\ \E fileId \in FileInputs, userId \in UserIds, fault \in faults :
       LET req == After(Request("deleteFile", 0, fileId, userId), fault)
           r == getFileById(fileId, fault)
       IN SetProc(p,
            IF r.err THEN Done(req, "Failed to get file")
            ELSE IF r.val = <<>> THEN Done(req, "File not found")
            ELSE IF r.val[1].userId # userId
                 THEN Done([req EXCEPT !.file = r.val],
                           "Unauthorized access to file")
            ELSE [req EXCEPT !.pc = "d_blob", !.file = r.val])
  /\ UNCHANGED <<now, ticks, shareLinks, files, blobs, createLog, purged, accessLog, probe>>

\* deleteBlob inside its own try: a failure is logged and ignored.
DeleteFile_Blob(p, faults) ==
  /\ procs[p].pc = "d_blob"
  /\ \E fault \in faults \ {"notfound404"} :
       LET req == After(procs[p], fault) IN
       /\ blobs' = IF fault = "none" THEN blobs \ {req.fileId} ELSE blobs
       /\ SetProc(p, [req EXCEPT !.pc = "d_query"])
  /\ UNCHANGED <<now, ticks, shareLinks, files, createLog, purged, accessLog, probe>>

\* deleteShareLinksByFileId: the links to delete are those getShareLinksByFileId
\* returns.
DeleteShareLinksByFileId_Query(p, faults) ==
  /\ procs[p].pc = "d_query"
  /\ \E fault \in faults :
       LET req == After(procs[p], fault) IN
       SetProc(p,
         IF fault # "none"
         THEN Done(req, "Failed to delete share links for file")
         ELSE [req EXCEPT !.pc = "d_loop",
                 !.todo = {l.linkId : l \in getShareLinksByFileId(req.fileId)}])
  /\ UNCHANGED <<now, ticks, shareLinks, files, blobs, createLog, purged, accessLog, probe>>

\* The loop body's getShareLinkById for the next link of the list (the order
\* of a query's result is the store's choice); a link that is gone is skipped.
DeleteShareLinksByFileId_Read(p, faults) ==
  /\ procs[p].pc = "d_loop"
  /\ procs[p].todo # {}
  /\ \E linkId \in procs[p].todo, fault \in faults :
       LET req == After(procs[p], fault)
           r == getShareLinkById(linkId, fault)
       IN SetProc(p,
            IF r.err THEN Done(req, "Failed to delete share links for file")
            ELSE IF r.val = <<>> THEN [req EXCEPT !.todo = @ \ {linkId}]
            ELSE [req EXCEPT !.pc = "d_delete", !.linkId = linkId])
  /\ UNCHANGED <<now, ticks, shareLinks, files, blobs, createLog, purged, accessLog, probe>>

\* Mutant: a failed delete is tried again with the same list.
DeleteShareLinksByFileId_Delete_Retry(p, faults) ==
  /\ procs[p].pc = "d_delete"
  /\ \E fault \in faults :
       LET req == After(procs[p], fault) IN
       IF fault = "none" /\ Stored(req.linkId)
       THEN /\ shareLinks' = {l \in shareLinks : l.linkId # req.linkId}
            /\ SetProc(p, [req EXCEPT !.pc = "d_loop", !.todo = @ \ {req.linkId}])
       ELSE /\ SetProc(p, [req EXCEPT !.pc = "d_loop"])
            /\ UNCHANGED shareLinks
  /\ UNCHANGED <<now, ticks, files, blobs, createLog, purged, accessLog, probe>>

\* The loop body's container.item(id, linkId).delete(): any failure ends the
\* cascade and deleteFile with it.
DeleteShareLinksByFileId_Delete(p, faults) ==
  /\ procs[p].pc = "d_delete"
  /\ \E fault \in faults :
       LET req == After(procs[p], fault) IN
       IF fault = "none" /\ Stored(req.linkId)
       THEN /\ shareLinks' = {l \in shareLinks : l.linkId # req.linkId}
            /\ SetProc(p, [req EXCEPT !.pc = "d_loop", !.todo = @ \ {req.linkId}])
       ELSE /\ SetProc(p, Done(req, "Failed to delete share links for file"))
            /\ UNCHANGED shareLinks
  /\ UNCHANGED <<now, ticks, files, blobs, createLog, purged, accessLog, probe>>

\* hardDeleteFile after the loop: getFileById; nothing to delete when the file
\* is gone.
HardDeleteFile_Read(p, faults) ==
  /\ procs[p].pc = "d_loop"
  /\ procs[p].todo = {}
  /\ \E fault \in faults :
       LET req == After(procs[p], fault)
           r == getFileById(req.fileId, fault)
       IN SetProc(p,
            IF r.err THEN Done(req, "Failed to hard delete file")
            ELSE IF r.val = <<>> THEN Done(req, "OK")
            ELSE [req EXCEPT !.pc = "d_hard"])
  /\ UNCHANGED <<now, ticks, shareLinks, files, blobs, createLog, purged, accessLog, probe>>

\* hardDeleteFile: container.item(id, fileId).delete(); a 404 is swallowed.
HardDeleteFile_Delete(p, faults) ==
  /\ procs[p].pc = "d_hard"
  /\ \E fault \in faults :
       LET req == After(procs[p], fault) IN
       /\ files' = IF fault = "none"
                   THEN {f \in files : f.fileId # req.fileId} ELSE files
       /\ SetProc(p, Done(req, IF fault = "error"
                               THEN "Failed to hard delete file" ELSE "OK"))
  /\ UNCHANGED <<now, ticks, shareLinks, blobs, createLog, purged, accessLog, probe>>

\* --------------------------------- ShareLinkService.getShareLinksByFileId
\* FileRepo.getFileById and the ownership check.
GetShareLinksByFileId_File(p, faults) ==
  /\ Idle(p)
  /\ \E fileId \in FileInputs, userId \in UserIds, fault \in faults :
       LET req == After(Request("getShareLinksByFileId", 0, fileId, userId),
                        fault)
           r == getFileById(fileId, fault)
       IN SetProc(p,
            IF r.err THEN Done(req, "Failed to get file")
            ELSE IF r.val = <<>> THEN Done(req, "File not found")
            ELSE IF r.val[1].userId # userId
                 THEN Done([req EXCEPT !.file = r.val],
                           "Unauthorized access to file")
            ELSE [req EXCEPT !.pc = "l_query", !.file = r.val])
  /\ UNCHANGED <<now, ticks, shareLinks, files, blobs, createLog, purged, accessLog, probe>>

\* ShareLinkRepo.getShareLinksByFileId: the file's links the query returns.
GetShareLinksByFileId_Query(p, faults) ==
  /\ procs[p].pc = "l_query"
  /\ \E fault \in faults :
       LET req == After(procs[p], fault) IN
       SetProc(p,
         IF fault # "none" THEN Done(req, "Failed to get share links for file")
         ELSE Done([req EXCEPT !.listing = getShareLinksByFileId(req.fileId)],
                   "OK"))
  /\ UNCHANGED <<now, ticks, shareLinks, files, blobs, createLog, purged, accessLog, probe>>

\* -------------------------------------- ShareLinkService.getUserShareLinks
\* ShareLinkRepo.getShareLinksByUserId: every link the user created.
GetUserShareLinks_Query(p, faults) ==
  /\ Idle(p)
  /\ \E userId \in UserIds, fault \in faults :
       LET req == After(Request("getUserShareLinks", 0, 0, userId), fault) IN
       SetProc(p,
         IF fault # "none" THEN Done(req, "Failed to get share links for user")
         ELSE Done([req EXCEPT !.listing = getShareLinksByUserId(userId)],
                   "OK"))
  /\ UNCHANGED <<now, ticks, shareLinks, files, blobs, createLog, purged, accessLog, probe>>

\* ------------------------------------------------- FileService.updateFile
\* Mutant: the name is checked before the owner.
UpdateChecks_NameFirst(r, userId, fileName) ==
  IF r.err THEN "Failed to get file"
  ELSE IF r.val = <<>> THEN "File not found"
  ELSE IF trim(fileName) = "" THEN "File name cannot be empty"
  ELSE IF r.val[1].userId # userId THEN "Unauthorized access to file"
  ELSE ""

\* The checks of updateFile on the file read, in the code's order: the message
\* of the first that fails, "" when all pass.
UpdateChecks(r, userId, fileName) ==
  IF r.err THEN "Failed to get file"
  ELSE IF r.val = <<>> THEN "File not found"
  ELSE IF r.val[1].userId # userId THEN "Unauthorized access to file"
  ELSE IF trim(fileName) = "" THEN "File name cannot be empty"
  ELSE ""

\* FileRepo.getFileById and the checks; doc is the copy read with the new
\* name.
UpdateFile_File(p, faults) ==
  /\ Idle(p)
  /\ \E fileId \in FileInputs, userId \in UserIds, fileName \in NameInputs,
        fault \in faults :
       LET req == After(Request("updateFile", 0, fileId, userId), fault)
           r == getFileById(fileId, fault)
           failure == UpdateChecks(r, userId, fileName)
       IN SetProc(p,
            IF failure # "" THEN Done([req EXCEPT !.file = r.val], failure)
            ELSE [req EXCEPT !.pc = "f_exist", !.file = r.val,
                    !.doc = <<[r.val[1] EXCEPT !.fileName = trim(fileName)]>>])
  /\ UNCHANGED <<now, ticks, shareLinks, files, blobs, createLog, purged, accessLog, probe>>

\* CosmosFileRepo.updateFile: getFileById for the document's id.
UpdateFile_Exist(p, faults) ==
  /\ procs[p].pc = "f_exist"
  /\ \E fault \in faults :
       LET req == After(procs[p], fault)
           r == getFileById(req.fileId, fault)
       IN SetProc(p,
            IF r.err \/ r.val = <<>> THEN Done(req, "Failed to update file")
            ELSE [req EXCEPT !.pc = "f_replace"])
  /\ UNCHANGED <<now, ticks, shareLinks, files, blobs, createLog, purged, accessLog, probe>>

\* CosmosFileRepo.updateFile: the stored document is replaced by doc.
UpdateFile_Replace(p, faults) ==
  /\ procs[p].pc = "f_replace"
  /\ \E fault \in faults :
       LET req == After(procs[p], fault)
           stored == {f \in files : f.fileId = req.fileId}
       IN IF fault = "none" /\ stored # {}
          THEN /\ files' = (files \ stored) \cup {req.doc[1]}
               /\ SetProc(p, Done(req, "OK"))
          ELSE /\ SetProc(p, Done(req, "Failed to update file"))
               /\ UNCHANGED files
  /\ UNCHANGED <<now, ticks, shareLinks, blobs, createLog, purged, accessLog, probe>>

\* ------------------------------------------------ CosmosFileRepo.deleteFile
\* Soft delete: the file's status becomes 'deleted'.
SoftDeleteFile ==
  /\ \E f \in files :
       /\ f.status = "active"
       /\ files' = (files \ {f}) \cup {[f EXCEPT !.status = "deleted"]}
  /\ UNCHANGED <<now, ticks, shareLinks, blobs, createLog, purged, accessLog, procs, probe>>

\* ----------------------------------------------------------- environment
\* The store removes a document whose ttl has run out since its last write.
TtlPurge ==
  /\ \E l \in shareLinks :
       /\ l.ttl # <<>>
       /\ now >= l.ts + l.ttl[1]
       /\ shareLinks' = shareLinks \ {l}
       /\ purged' = purged \cup {l.linkId}
  /\ UNCHANGED <<now, ticks, files, blobs, createLog, accessLog, procs, probe>>

\* The response is sent and the request is over.
Respond(p) ==
  /\ procs[p].pc = "done"
  /\ SetProc(p, IdleProc)
  /\ UNCHANGED <<now, ticks, shareLinks, files, blobs, createLog, purged, accessLog, probe>>

\* Time passes.
Advance(limit) ==
  /\ ticks < limit
  /\ \E d \in Deltas : now' = now + d
  /\ ticks' = ticks + 1
  /\ UNCHANGED <<shareLinks, files, blobs, createLog, purged, accessLog, procs, probe>>

\* ------------------------------------------------------- specifications
Step(p, limit, faults) ==
  \/ GetFileByShareLink_Lookup(p, faults)
  \/ GetFileByShareLink_File(p, faults)
  \/ RevokeShareLink_Lookup(p, faults)
  \/ RepoRead(p, faults)
  \/ UpdateShareLink_Exist(p, faults)
  \/ UpdateShareLink_Replace(p, faults)
  \/ CreateShareLink_File(p, limit, faults)
  \/ CreateShareLink_Insert(p, faults)
  \/ DeleteFile_File(p, faults)
  \/ DeleteFile_Blob(p, faults)
  \/ DeleteShareLinksByFileId_Query(p, faults)
  \/ DeleteShareLinksByFileId_Read(p, faults)
  \/ DeleteShareLinksByFileId_Delete(p, faults)
  \/ HardDeleteFile_Read(p, faults)
  \/ HardDeleteFile_Delete(p, faults)
  \/ Respond(p)

\* The steps of the listings and of the rename.
FileStep(p, faults) ==
  \/ GetShareLinksByFileId_File(p, faults)
  \/ GetShareLinksByFileId_Query(p, faults)
  \/ GetUserShareLinks_Query(p, faults)
  \/ UpdateFile_File(p, faults)
  \/ UpdateFile_Exist(p, faults)
  \/ UpdateFile_Replace(p, faults)

Environment == SoftDeleteFile \/ TtlPurge

\* One link through time: requests served one at a time.
Tick == Advance(MaxTicks)

Next == Tick \/ Environment \/ Step(1, MaxLinks, Faults)

Spec == Init /\ [][Next]_vars

\* Several links within one second: requests served one at a time.
StoreNext == SoftDeleteFile \/ Step(1, MaxStoreLinks, Faults)

StoreSpec == Init /\ [][StoreNext]_vars

\* Requests served concurrently, within one second and with every store and
\* blob call answering: their steps interleave.
RaceNext == SoftDeleteFile \/ \E p \in Procs : Step(p, MaxLinks, {"none"})

RaceSpec == Init /\ [][RaceNext]_vars

\* Every operation on one file and one link, requests served one at a time,
\* within one second.
FileNext == SoftDeleteFile \/ Step(1, MaxLinks, Faults) \/ FileStep(1, Faults)

FileSpec == Init /\ [][FileNext]_vars

\* The operations on share links and the rename and listings that run beside
\* them, without the deletion of files.
ShareStep(p, limit, faults) ==
  \/ GetFileByShareLink_Lookup(p, faults)
  \/ GetFileByShareLink_File(p, faults)
  \/ RevokeShareLink_Lookup(p, faults)
  \/ RepoRead(p, faults)
  \/ UpdateShareLink_Exist(p, faults)
  \/ UpdateShareLink_Replace(p, faults)
  \/ CreateShareLink_File(p, limit, faults)
  \/ CreateShareLink_Insert(p, faults)
  \/ FileStep(p, faults)
  \/ Respond(p)

\* Create, resolve, revoke, rename and the listings served concurrently,
\* within one second and with every store and blob call answering.
MixNext == \E p \in Procs : ShareStep(p, MaxLinks, {"none"})

MixSpec == Init /\ [][MixNext]_vars

\* One link through time beside the rename and the listings: requests served
\* one at a time, with every store and blob call answering.
ListNext == Tick \/ Environment \/ ShareStep(1, MaxLinks, {"none"})

ListSpec == Init /\ [][ListNext]_vars

\* Creations and resolutions alone.
ResolveStep(p, limit, faults) ==
  \/ CreateShareLink_File(p, limit, faults)
  \/ CreateShareLink_Insert(p, faults)
  \/ GetFileByShareLink_Lookup(p, faults)
  \/ GetFileByShareLink_File(p, faults)
  \/ RepoRead(p, faults)
  \/ UpdateShareLink_Exist(p, faults)
  \/ UpdateShareLink_Replace(p, faults)
  \/ Respond(p)

\* Resolutions of one link served concurrently, within one second and with
\* every store and blob call answering.
CountNext == \E p \in Procs : ResolveStep(p, MaxLinks, {"none"})

CountSpec == Init /\ [][CountNext]_vars

\* Creations, resolutions and revocations alone.
LinkStep(p, limit, faults) ==
  \/ CreateShareLink_File(p, limit, faults)
  \/ CreateShareLink_Insert(p, faults)
  \/ GetFileByShareLink_Lookup(p, faults)
  \/ GetFileByShareLink_File(p, faults)
  \/ RevokeShareLink_Lookup(p, faults)
  \/ RepoRead(p, faults)
  \/ UpdateShareLink_Exist(p, faults)
  \/ UpdateShareLink_Replace(p, faults)
  \/ Respond(p)

\* Requests on several links served concurrently, within one second and with
\* every store and blob call answering.
\* The inputs of those requests: links of seven days asked by the owner,
\* revocations by the owner, resolutions by nobody in particular.
PairInputs ==
  /\ \A i \in DOMAIN createLog : createLog[i].days = <<7>>
  /\ \A p \in Procs :
       /\ procs[p].op = "getFileByShareLink" => procs[p].userId = 0
       /\ procs[p].op \in {"createShareLink", "revokeShareLink"}
          => procs[p].userId = FileOwner(1)

PairNext == (\E p \in Procs : LinkStep(p, MaxStoreLinks, {"none"})) /\ PairInputs'

PairSpec == Init /\ [][PairNext]_vars

\* Two files of two owners and the links on them: every operation, requests
\* served one at a time, within one second and with every store and blob call
\* answering.
MaxShelfFiles == 2

ShelfInit ==
  /\ now = 0
  /\ ticks = 0
  /\ shareLinks = {}
  /\ files = {File(f) : f \in 1..MaxShelfFiles}
  /\ blobs = 1..MaxShelfFiles
  /\ createLog = <<>>
  /\ purged = {}
  /\ accessLog = [l \in LinkIds |-> 0]
  /\ procs = [p \in Procs |-> IdleProc]
  /\ probe = NoProbe

\* The inputs of those requests: links of seven days, resolutions by nobody
\* in particular.
ShelfInputs ==
  /\ \A i \in DOMAIN createLog : createLog[i].days = <<7>>
  /\ \A p \in Procs : procs[p].op = "getFileByShareLink" => procs[p].userId = 0

ShelfNext ==
  /\ SoftDeleteFile \/ Step(1, MaxStoreLinks, {"none"}) \/ FileStep(1, {"none"})
  /\ ShelfInputs'

ShelfSpec == ShelfInit /\ [][ShelfNext]_vars

\* Create, resolve, revoke, the listings and the deletion of a file.
LiveStep(p, limit, faults) ==
  \/ Step(p, limit, faults)
  \/ GetShareLinksByFileId_File(p, faults)
  \/ GetShareLinksByFileId_Query(p, faults)
  \/ GetUserShareLinks_Query(p, faults)

\* The inputs of those requests: links of seven days, every request but a
\* resolution by the owner of the file; the requests served beside those of
\* the first process are creations.
LiveInputs ==
  /\ \A i \in DOMAIN createLog : createLog[i].days = <<7>>
  /\ \A p \in Procs \ {1} : procs[p].op \in {"none", "createShareLink"}
  /\ \A p \in Procs :
       procs[p].op # "none"
       => procs[p].userId = (IF procs[p].op = "getFileByShareLink" THEN 0
                             ELSE FileOwner(1))

\* A request that has begun takes its next step: the call it awaits returns
\* or fails.
Continue(p) ==
  /\ procs[p].pc \notin {"idle", "done"}
  /\ LiveStep(p, MaxStoreLinks, Faults)
  /\ LiveInputs'

\* Requests served concurrently within one second, each store and blob call
\* returning or failing in the end.
LiveNext == (\E p \in Procs : LiveStep(p, MaxStoreLinks, Faults)) /\ LiveInputs'

LiveSpec ==
  Init /\ [][LiveNext]_vars /\ \A p \in Procs : WF_vars(Continue(p))

\* isShareLinkValid on its own, for every input of a bounded set.
MaxProbeTime == 6

ProbeTimes == 0..MaxProbeTime

ProbeInit ==
  /\ now \in ProbeTimes
  /\ ticks = 0
  /\ \E isRevoked \in BOOLEAN, accessCount \in {0, MaxAccess},
        expiryDate \in {<<>>} \cup {<<t>> : t \in ProbeTimes} :
       LET shareLink ==
             [ShareLink(1, 1, FileOwner(1), expiryDate, 0, <<>>)
                EXCEPT !.isRevoked = isRevoked, !.accessCount = accessCount]
       IN /\ shareLinks = {shareLink}
          /\ probe = [shareLink |-> <<shareLink>>, verdict |-> <<>>]
  /\ files = {File(f) : f \in FileIds}
  /\ blobs = FileIds
  /\ createLog = <<>>
  /\ purged = {}
  /\ accessLog = [l \in LinkIds |-> 0]
  /\ procs = [p \in Procs |-> IdleProc]

Validate ==
  /\ probe.shareLink # <<>>
  /\ probe.verdict = <<>>
  /\ probe' = [probe EXCEPT
                 !.verdict = <<isShareLinkValid(probe.shareLink[1], now)>>]
  /\ UNCHANGED <<now, ticks, shareLinks, files, blobs, createLog, purged, accessLog,
               procs>>

ProbeNext == Validate

ProbeSpec == ProbeInit /\ [][ProbeNext]_vars

\* ------------------------------------------------------ ShareRoutes
\* What the route's catch block reads off the message of a failed resolution:
\* includes('not found'), includes('expired'), includes('revoked').
SaysNotFound(result) ==
  result \in {"Share link not found", "File not found or deleted",
              "File not found"}

SaysExpired(result) == result = "Share link is expired or revoked"

SaysRevoked(result) == result = "Share link is expired or revoked"

\* ================================================================ claims
CreateDone(p) == procs[p].pc = "done" /\ procs[p].op = "createShareLink"

RevokeDone(p) == procs[p].pc = "done" /\ procs[p].op = "revokeShareLink"

\* The IShareLink fields of a stored document, without the store's write time.
Fields(l) == [l EXCEPT !.ts = 0]

ResolveDone(p) ==
  procs[p].pc = "done" /\ procs[p].op = "getFileByShareLink"

DeleteFileDone(p) == procs[p].pc = "done" /\ procs[p].op = "deleteFile"

\* The link was created with a duration / with none.
CreatedWithDays(linkId) ==
  /\ linkId \in DOMAIN createLog
  /\ createLog[linkId].days # <<>>
  /\ createLog[linkId].days[1] \in AllowedDays

CreatedWithoutDays(linkId) ==
  linkId \in DOMAIN createLog /\ createLog[linkId].days = <<>>

\* Creation time plus the duration asked for.
ExpiresAt(linkId) ==
  createLog[linkId].at + createLog[linkId].days[1] * DaySeconds

FileActive(fileId) ==
  \E f \in files : f.fileId = fileId /\ f.status = "active"

\* A resolution of the stored link l started now would get through the
\* validity check and the file check.
Resolvable(l) == isShareLinkValid(l, now) /\ FileActive(l.fileId)

\* C1: a link created with no duration and not revoked resolves at every
\* later time while its file is active: a resolution of it whose store and
\* blob calls all answer ends OK, or with the file error when the file it
\* read is missing.
C1_NeverExpiringLinkResolves ==
  \A p \in Procs :
    LET req == procs[p] IN
    (/\ ResolveDone(p)
     /\ ~req.faulted
     /\ req.shareLink # <<>>
     /\ CreatedWithoutDays(req.linkId)
     /\ ~req.shareLink[1].isRevoked)
    => \/ req.result = "OK"
       \/ FileMissing(req.file) /\ req.result = "File not found or deleted"

\* C2: once a stored share link has isRevoked = TRUE, every later stored
\* version of it has isRevoked = TRUE, under every interleaving of revoke
\* and resolve.
C2_RevokedStaysRevoked ==
  [][\A l \in shareLinks : \A m \in shareLinks' :
       (m.linkId = l.linkId /\ l.isRevoked) => m.isRevoked]_vars

\* C3: the stored accessCount of a share link never decreases, under every
\* interleaving of revoke and resolve.
C3_AccessCountNeverDecreases ==
  [][\A l \in shareLinks : \A m \in shareLinks' :
       m.linkId = l.linkId => m.accessCount >= l.accessCount]_vars

\* C4: a deleteFile whose cascade stopped at a share-link deletion that
\* failed still ends OK with the file record removed, and no share link of
\* the file is resolvable afterwards.
C4_DeleteFileSurvivesCascadeFailure ==
  \A p \in Procs :
    LET req == procs[p] IN
    (DeleteFileDone(p) /\ req.todo # {})
    => /\ req.result = "OK"
       /\ ~\E f \in files : f.fileId = req.fileId
       /\ \A l \in shareLinks : l.fileId = req.fileId => ~Resolvable(l)

\* C5: after a deleteFile that ended OK with every store and blob call
\* answering, the store holds no share link of that file.
C5_CascadeDeletesEveryLink ==
  \A p \in Procs :
    LET req == procs[p] IN
    (DeleteFileDone(p) /\ req.result = "OK" /\ ~req.faulted)
    => \A l \in shareLinks : l.fileId # req.fileId

\* C6 as claimed: the verdict is valid exactly when the link is not revoked
\* and its expiry is absent or now < expiry.
C6_ValidIffBeforeExpiry ==
  probe.verdict # <<>> =>
    LET l == probe.shareLink[1] IN
    probe.verdict[1] =
      (~l.isRevoked /\ (l.expiryDate = <<>> \/ now < l.expiryDate[1]))

\* C6 as amended: the verdict is valid exactly when the link is not revoked
\* and its expiry is absent or now <= expiry (at now = expiry the link is
\* still valid); it depends on nothing else and the stored document is as it
\* was.
C6_ValidIffNotPastExpiry ==
  probe.verdict # <<>> =>
    LET l == probe.shareLink[1] IN
    /\ probe.verdict[1] =
         (~l.isRevoked /\ (l.expiryDate = <<>> \/ now <= l.expiryDate[1]))
    /\ shareLinks = {l}

C6_Witness ==
  /\ probe.verdict = <<TRUE>>
  /\ probe.shareLink[1].expiryDate = <<now>>

\* C7: a resolution refused by the validity check tells the client which of
\* the two reasons it was: revoked (also when past expiry as well) or
\* expired, never both in one error.
C7_RevokedAndExpiredToldApart ==
  \A p \in Procs :
    LET req == procs[p] IN
    (/\ ResolveDone(p)
     /\ ~req.faulted
     /\ req.shareLink # <<>>
     /\ ~isShareLinkValid(req.shareLink[1], req.at))
    => IF req.shareLink[1].isRevoked
       THEN SaysRevoked(req.result) /\ ~SaysExpired(req.result)
       ELSE SaysExpired(req.result) /\ ~SaysRevoked(req.result)

\* C8: a resolution of a valid link that reads no file record, or one whose
\* status is not 'active', fails with the file's not-found error (not
\* expired, not revoked), mints no download URL and leaves the stored
\* accessCount as it read it.
C8_MissingFileIsNotFound ==
  \A p \in Procs :
    LET req == procs[p] IN
    (/\ ResolveDone(p)
     /\ ~req.faulted
     /\ req.shareLink # <<>>
     /\ isShareLinkValid(req.shareLink[1], req.at)
     /\ req.file = <<>> \/ req.file[1].status # "active")
    => /\ req.result = "File not found or deleted"
       /\ SaysNotFound(req.result)
       /\ ~SaysExpired(req.result) /\ ~SaysRevoked(req.result)
       /\ req.downloadUrl = <<>>
       /\ \A l \in shareLinks :
            l.linkId = req.linkId
            => l.accessCount = req.shareLink[1].accessCount

C8_Witness ==
  \E p \in Procs :
    /\ ResolveDone(p)
    /\ ~procs[p].faulted
    /\ procs[p].shareLink # <<>>
    /\ isShareLinkValid(procs[p].shareLink[1], procs[p].at)
    /\ procs[p].file # <<>>
    /\ procs[p].file[1].status = "deleted"
    /\ procs[p].result = "File not found or deleted"

\* C9: the first step of a resolution whose link id no stored document has,
\* the store answering, ends the request with the link's not-found error
\* and changes nothing in the store.
C9_UnknownLinkNotFound ==
  [][\A p \in Procs :
       (/\ Idle(p)
        /\ procs'[p].op = "getFileByShareLink"
        /\ ~procs'[p].faulted
        /\ ~Stored(procs'[p].linkId))
       => /\ procs'[p].pc = "done"
          /\ procs'[p].result = "Share link not found"
          /\ SaysNotFound(procs'[p].result)
          /\ shareLinks' = shareLinks
          /\ files' = files
          /\ blobs' = blobs]_vars

C9_Witness ==
  \E p \in Procs :
    /\ ResolveDone(p)
    /\ ~procs[p].faulted
    /\ procs[p].result = "Share link not found"
    /\ shareLinks # {}
    /\ ~Stored(procs[p].linkId)

\* C10: a resolution of a link created with a duration that starts after its
\* expiry fails as expired, whether the document is still stored or the
\* store's ttl has removed it; one that starts before the expiry, of a link
\* not revoked with its file active, succeeds.
C10_ExpiredWhetherPurgedOrNot ==
  \A p \in Procs :
    LET req == procs[p] IN
    (/\ ResolveDone(p)
     /\ ~req.faulted
     /\ CreatedWithDays(req.linkId)
     /\ req.shareLink # <<>> \/ req.linkId \in purged)
    => /\ req.at > ExpiresAt(req.linkId) => SaysExpired(req.result)
       /\ (/\ req.at < ExpiresAt(req.linkId)
           /\ req.shareLink # <<>>
           /\ ~req.shareLink[1].isRevoked
           /\ ~FileMissing(req.file))
          => req.result = "OK"

\* C11: with requests served one at a time, the stored accessCount of a link
\* equals the number of resolutions of it that returned to the caller; each of
\* them raised it by exactly 1 from 0.
C11_AccessCountIsResolutions ==
  \A l \in shareLinks : l.accessCount = accessLog[l.linkId]

C11_Witness ==
  \E l \in shareLinks :
    /\ l.accessCount = MaxAccess
    /\ accessLog[l.linkId] = MaxAccess
    /\ \A p \in Procs : Idle(p)

\* C12: a resolution that got as far as the download URL (link valid, file
\* active, URL minted) returns to the caller with it, whatever happens to the
\* access accounting that follows.
C12_AccountingIsBestEffort ==
  \A p \in Procs :
    (ResolveDone(p) /\ procs[p].downloadUrl # <<>>) => procs[p].result = "OK"

\* C13: the download URL of a resolution that returned to the caller, of a
\* link created with a duration, stops working no later than the storage
\* ceiling after it was made, and no later than the link's expiryDate.
C13_SasWithinCeilingAndExpiry ==
  \A p \in Procs :
    (/\ ResolveDone(p)
     /\ procs[p].result = "OK"
     /\ CreatedWithDays(procs[p].linkId))
    => LET url == procs[p].downloadUrl[1]
           lifetime == url.hours * HourSeconds
           mintedAt == url.expiresOn - lifetime
           remaining == procs[p].shareLink[1].expiryDate[1] - mintedAt
       IN /\ lifetime <= SasCeilingHours * HourSeconds
          /\ lifetime <= remaining

C15_RevokeIdempotentAndOwnerOnly ==
  \A p \in Procs :
    LET req == procs[p] IN
    (/\ RevokeDone(p)
     /\ ~req.faulted
     /\ req.shareLink # <<>>
     /\ req.linkId \notin purged)
    => IF req.shareLink[1].userId # req.userId
       THEN /\ req.result = "Unauthorized access"
            /\ \A l \in shareLinks :
                 l.linkId = req.linkId => l = req.shareLink[1]
       ELSE req.shareLink[1].isRevoked
            => /\ req.result = "OK"
               /\ \A l \in shareLinks :
                    l.linkId = req.linkId
                    => Fields(l) = Fields(req.shareLink[1])

\* The owner's second revoke has ended.
C15_Witness ==
  \E p \in Procs :
    /\ RevokeDone(p)
    /\ ~procs[p].faulted
    /\ procs[p].shareLink # <<>>
    /\ procs[p].shareLink[1].isRevoked
    /\ procs[p].shareLink[1].userId = procs[p].userId
    /\ procs[p].result = "OK"
    /\ Stored(procs[p].linkId)

\* C16: the first step of a revoke, the store answering, ends the request
\* with the link's not-found error when no stored link has the id, whoever
\* asks; with the unauthorized error when the caller is not the userId stored
\* on the link; and goes on otherwise, whatever has become of the file.  The
\* stored owner's revoke then ends OK with the link revoked.
C16_RevokeChecksStoredOwner ==
  /\ [][\A p \in Procs :
         (/\ Idle(p)
          /\ procs'[p].op = "revokeShareLink"
          /\ ~procs'[p].faulted)
         => LET req == procs'[p]
                stored == {l \in shareLinks : l.linkId = req.linkId}
            IN /\ shareLinks' = shareLinks
               /\ IF stored = {}
                  THEN req.pc = "done" /\ req.result = "Share link not found"
                  ELSE IF \E l \in stored : l.userId # req.userId
                       THEN req.pc = "done" /\ req.result = "Unauthorized access"
                  ELSE req.pc = "u_read"]_vars
  /\ [](\A p \in Procs :
         (/\ RevokeDone(p)
          /\ ~procs[p].faulted
          /\ procs[p].shareLink # <<>>
          /\ procs[p].shareLink[1].userId = procs[p].userId
          /\ procs[p].linkId \notin purged)
         => /\ procs[p].result = "OK"
            /\ \A l \in shareLinks :
                 l.linkId = procs[p].linkId => l.isRevoked)

\* The stored owner has revoked a link whose file is no longer active.
C16_Witness ==
  \E p \in Procs :
    /\ RevokeDone(p)
    /\ ~procs[p].faulted
    /\ procs[p].shareLink # <<>>
    /\ procs[p].shareLink[1].userId = procs[p].userId
    /\ ~procs[p].shareLink[1].isRevoked
    /\ ~FileActive(procs[p].shareLink[1].fileId)
    /\ procs[p].result = "OK"
    /\ \E l \in shareLinks : l.linkId = procs[p].linkId /\ l.isRevoked

\* C17: the first step of a create, the store answering, ends the request
\* with 'File not found' when no file has the id, else with the unauthorized
\* error when the caller is not the file's owner, else with 'Cannot share
\* deleted file' when the file is not active; in each of these cases nothing
\* is stored and no link id is used.  Otherwise the request goes on.
C17_CreateChecksInOrder ==
  [][\A p \in Procs :
       (/\ Idle(p)
        /\ procs'[p].op = "createShareLink"
        /\ ~procs'[p].faulted)
       => LET req == procs'[p]
              found == {f \in files : f.fileId = req.fileId}
              refused(message) ==
                /\ req.pc = "done"
                /\ req.result = message
                /\ shareLinks' = shareLinks
                /\ createLog' = createLog
                /\ files' = files
          IN IF found = {} THEN refused("File not found")
             ELSE IF \E f \in found : f.userId # req.userId
                  THEN refused("Unauthorized access to file")
             ELSE IF \E f \in found : f.status # "active"
                  THEN refused("Cannot share deleted file")
             ELSE req.pc = "c_insert"]_vars

\* A create by someone who is not the owner, of a file that is deleted, was
\* refused as unauthorized.
C17_Witness ==
  \E p \in Procs :
    /\ CreateDone(p)
    /\ ~procs[p].faulted
    /\ procs[p].result = "Unauthorized access to file"
    /\ \E f \in files :
         /\ f.fileId = procs[p].fileId
         /\ f.status = "deleted"
         /\ f.userId # procs[p].userId

\* C18: the document a create adds to the store has accessCount 0 and
\* isRevoked FALSE, the fileId and userId of the request, that userId being
\* the owner of the file as read, and the time the request built it as
\* createdDate; it is the document returned to the caller.
C18_NewLinkInitialFields ==
  [][\A l \in shareLinks' :
       ~Stored(l.linkId)
       => \E p \in Procs :
            LET req == procs[p] IN
            /\ req.op = "createShareLink"
            /\ l.linkId = req.linkId
            /\ l.accessCount = 0
            /\ l.isRevoked = FALSE
            /\ l.fileId = req.fileId
            /\ l.userId = req.userId
            /\ l.userId = req.file[1].userId
            /\ l.createdDate = createLog[l.linkId].at
            /\ procs'[p].shareLink = <<l>>
            /\ procs'[p].result = "OK"]_vars

\* A create with a duration has ended OK and its document is stored.
C18_Witness ==
  \E p \in Procs :
    /\ CreateDone(p)
    /\ procs[p].result = "OK"
    /\ CreatedWithDays(procs[p].linkId)
    /\ procs[p].shareLink[1] \in shareLinks

\* C19: every stored link created with a duration of d days has an
\* expiryDate d * 24 hours after the time it was created, which is its
\* createdDate.
C19_ExpiryIsCreationPlusDays ==
  \A l \in shareLinks :
    CreatedWithDays(l.linkId)
    => /\ l.createdDate = createLog[l.linkId].at
       /\ l.expiryDate =
            <<l.createdDate + createLog[l.linkId].days[1] * DaySeconds>>

\* A link of the longest duration, stored at a later time than it was built.
C19_Witness ==
  \E l \in shareLinks :
    /\ CreatedWithDays(l.linkId)
    /\ createLog[l.linkId].days = <<30>>
    /\ l.expiryDate = <<l.createdDate + 30 * DaySeconds>>
    /\ l.ts > l.createdDate

\* C20: every stored link created with an expirationDays in the request has
\* an expiryDate 1, 7 or 30 days after its createdDate, whatever number the
\* request carried.
C20_LifetimeIsAllowed ==
  \A l \in shareLinks :
    CreatedWithoutDays(l.linkId)
    \/ l.expiryDate[1] - l.createdDate \in {d * DaySeconds : d \in AllowedDays}

\* What the routes answer 401 to: a message that says 'Unauthorized'.
SaysUnauthorized(result) ==
  result \in {"Unauthorized access to file", "Unauthorized access"}

\* The operations that act for the owner of a file or of a link.
OwnerOps ==
  {"createShareLink", "revokeShareLink", "getShareLinksByFileId", "updateFile",
   "deleteFile"}

\* The request names a stored file, or a stored link for a revocation, that
\* belongs to somebody else.
NotOwner(req) ==
  IF req.op = "revokeShareLink"
  THEN \E l \in shareLinks : l.linkId = req.linkId /\ l.userId # req.userId
  ELSE \E f \in files : f.fileId = req.fileId /\ f.userId # req.userId

Identity(l) == [l EXCEPT !.accessCount = 0, !.ts = 0]

\* C22: whoever asks (the owner, another user, nobody), a resolution whose
\* store and blob calls answer goes the way the link id, the stored link, the
\* file record and the clock dictate: not found without a stored link, expired
\* or revoked for a link that is not valid, not found or deleted without an
\* active file, a download URL otherwise; and its steps change nothing in the
\* store but the link's access count.
C22_ResolutionIsAnonymous ==
  [][\A p \in Procs :
       LET req == procs'[p]
           stored == {l \in shareLinks : l.linkId = req.linkId}
       IN (req.op = "getFileByShareLink" /\ req # procs[p])
          => /\ files' = files
             /\ blobs' = blobs
             /\ {Identity(l) : l \in shareLinks'}
                  = {Identity(l) : l \in shareLinks}
             /\ (Idle(p) /\ ~req.faulted)
                => /\ stored = {}
                      => req.pc = "done" /\ req.result = "Share link not found"
                   /\ \A l \in stored :
                        IF isShareLinkValid(l, now)
                        THEN req.pc = "r_file"
                        ELSE /\ req.pc = "done"
                             /\ req.result = "Share link is expired or revoked"
             /\ (procs[p].pc = "r_file" /\ ~req.faulted)
                => IF FileActive(req.shareLink[1].fileId)
                   THEN req.pc = "u_read" /\ req.downloadUrl # <<>>
                   ELSE /\ req.pc = "done"
                        /\ req.result = "File not found or deleted"]_vars

\* A user who does not own the link resolved it.
C22_Witness ==
  \E p \in Procs :
    /\ ResolveDone(p)
    /\ procs[p].result = "OK"
    /\ procs[p].userId \notin {0, procs[p].shareLink[1].userId}

\* What getFileByShareLink returns and the route sends as the body of its
\* answer: the file record and the link as read, and the URL minted.
\* Mutant: the response carries the record as written back with the access.
Response_AfterAccess(req) ==
  [file |-> req.file[1], shareLink |-> req.doc[1],
   downloadUrl |-> req.downloadUrl[1]]

Response(req) ==
  [file |-> req.file[1], shareLink |-> req.shareLink[1],
   downloadUrl |-> req.downloadUrl[1]]

\* The fields of a file the answer of a resolution is documented to carry.
PublicFileFields ==
  {"fileId", "fileName", "contentType", "fileSize", "uploadDate"}

\* C23: the answer of a successful resolution, of a link created with a
\* duration, carries of the file only its public fields, and never the stored
\* blobUrl of the file record.
C23_ResponseHidesBlobUrl ==
  \A p \in Procs :
    (/\ ResolveDone(p)
     /\ procs[p].result = "OK"
     /\ CreatedWithDays(procs[p].linkId))
    => /\ DOMAIN Response(procs[p]).file \subseteq PublicFileFields
       /\ "blobUrl" \notin DOMAIN Response(procs[p]).file

\* The request of p got past the file check and getBlobUrl threw: the file
\* was read and is active, one of the calls of the step failed, and the step
\* is the last of the request.
MintFailed(p) ==
  /\ procs[p].pc = "r_file"
  /\ procs'[p].faulted
  /\ procs'[p].file # <<>>
  /\ procs'[p].file[1].status = "active"

\* C24: when getBlobUrl throws, the resolution ends there with the message of
\* the failed minting, without any URL, and the link's access count and the
\* rest of the store stay as they were.
C24_MintingFailureGivesNoUrl ==
  [][\A p \in Procs :
       MintFailed(p)
       => /\ procs'[p].pc = "done"
          /\ procs'[p].result = "Failed to generate blob access URL"
          /\ procs'[p].downloadUrl = <<>>
          /\ shareLinks' = shareLinks
          /\ accessLog' = accessLog]_vars

\* A resolution of a stored valid link ended on a failed minting: no URL and
\* an access count still at zero.
C24_Witness ==
  \E p \in Procs :
    /\ ResolveDone(p)
    /\ procs[p].result = "Failed to generate blob access URL"
    /\ procs[p].downloadUrl = <<>>
    /\ \E l \in shareLinks :
         /\ l.linkId = procs[p].linkId
         /\ l.accessCount = 0
         /\ isShareLinkValid(l, now)

\* The request of p is a listing that returned its links.
ListDone(p) ==
  /\ procs[p].pc = "done"
  /\ procs[p].op \in {"getShareLinksByFileId", "getUserShareLinks"}
  /\ procs[p].result = "OK"

\* C25: every link a listing by file or by owner returns, of those created
\* with a duration, was valid under isShareLinkValid when the listing was
\* asked for (the entries of a listing carry no mark that tells an invalid
\* link from a usable one).
C25_ListingsReturnValidLinks ==
  \A p \in Procs :
    ListDone(p)
    => \A l \in procs[p].listing :
         CreatedWithDays(l.linkId) => isShareLinkValid(l, procs[p].at)

\* A step keeps the linkId, fileId and userId of every stored link.
KeepsIds ==
  \A l \in shareLinks, m \in shareLinks' :
    m.linkId = l.linkId => m.fileId = l.fileId /\ m.userId = l.userId

\* No two stored links share a linkId.
UniqueLinkIds ==
  \A l, m \in shareLinks : l.linkId = m.linkId => l = m

\* C26: through every interleaving of creations, resolutions, revocations,
\* renames and listings, no step changes the linkId, fileId or userId of a
\* stored link, a link is stored under the fileId and userId its creation was
\* asked with, and no two stored links have the same linkId.
C26_IdsImmutableAndUnique ==
  /\ [][KeepsIds]_vars
  /\ [](UniqueLinkIds)
  /\ [](\A l \in shareLinks : l.fileId \in FileIds /\ l.userId = FileOwner(l.fileId))

\* A link was resolved twice and revoked, its file renamed, and a listing of
\* the owner returned it.
C26_Witness ==
  /\ \E l \in shareLinks : l.accessCount = 2 /\ l.isRevoked
  /\ \E f \in files : f.fileName # UploadName
  /\ \E p \in Procs :
       /\ ListDone(p)
       /\ procs[p].op = "getUserShareLinks"
       /\ \E l \in procs[p].listing : l.isRevoked

\* C27: with resolutions of a link running side by side and nothing else
\* writing it, the access count is at least one as soon as one of them has
\* succeeded, and never more than the number of those that have succeeded;
\* each successful resolution writes the count it read plus one.
C27_CountBetweenOneAndSuccesses ==
  /\ [](\A l \in shareLinks :
          /\ l.accessCount <= accessLog[l.linkId]
          /\ accessLog[l.linkId] >= 1 => l.accessCount >= 1)
  /\ [][\A p \in Procs :
          (ResolveDone(p)' /\ ~ResolveDone(p) /\ procs'[p].result = "OK")
          => \E l \in shareLinks' :
               /\ l.linkId = procs[p].linkId
               /\ l.accessCount = procs[p].doc[1].accessCount
               /\ l.accessCount >= 1]_vars

\* A lost update: two resolutions that overlapped have both succeeded and the
\* count is one.
C27_Witness ==
  /\ \A p \in Procs : ResolveDone(p) /\ procs[p].result = "OK"
  /\ \E l \in shareLinks : l.accessCount = 1 /\ accessLog[l.linkId] = 2

\* C28: once a revocation of a link by its owner has returned success, every
\* resolution of that link that starts afterwards fails at its validity check,
\* whatever resolutions were in flight while the revocation ran.
C28_RevocationIsFinal ==
  [][\A p, q \in Procs :
       (/\ RevokeDone(q)
        /\ procs[q].result = "OK"
        /\ Idle(p)
        /\ procs'[p].op = "getFileByShareLink"
        /\ procs'[p].linkId = procs[q].linkId)
       => /\ procs'[p].pc = "done"
          /\ procs'[p].result # "OK"]_vars

\* The operations the store serves for share links.
StoreOps ==
  {"createShareLink", "getFileByShareLink", "revokeShareLink",
   "getShareLinksByFileId", "getUserShareLinks"}

\* What the request names is in the store: the link of a resolution or a
\* revocation, the file of a creation or a listing by file.
NamedIsStored(req) ==
  IF req.op \in {"getFileByShareLink", "revokeShareLink"}
  THEN Stored(req.linkId)
  ELSE IF req.op \in {"createShareLink", "getShareLinksByFileId"}
  THEN \E f \in files : f.fileId = req.fileId
  ELSE TRUE

\* C29: a creation, resolution, revocation or listing that names a stored
\* link or file and one of whose store calls fails ends at that call, as a
\* failure, and its message says none of not found, expired, revoked or
\* unauthorized.
C29_StoreErrorsAreInfrastructureFailures ==
  [][\A p \in Procs :
       (/\ procs'[p].op \in StoreOps
        /\ NamedIsStored(procs'[p])
        /\ procs'[p].faulted
        /\ ~procs[p].faulted)
       => /\ procs'[p].pc = "done"
          /\ procs'[p].result # "OK"
          /\ ~SaysNotFound(procs'[p].result)
          /\ ~SaysExpired(procs'[p].result)
          /\ ~SaysRevoked(procs'[p].result)
          /\ ~SaysUnauthorized(procs'[p].result)]_vars

\* C30: the ttl of a stored link is the seconds from its createdDate to its
\* expiryDate when they are more than none, and absent otherwise, as it is
\* for a link created without a duration; it is never zero or negative.
C30_TtlIsRemainingSeconds ==
  \A l \in shareLinks :
    LET remaining == l.expiryDate[1] - l.createdDate IN
    /\ l.ttl = IF remaining > 0 THEN <<remaining>> ELSE <<>>
    /\ CreatedWithoutDays(l.linkId) => l.ttl = <<>>
    /\ l.ttl # <<>> => l.ttl[1] > 0

\* A link asked with a negative duration is stored with an expiryDate before
\* its createdDate and without ttl.
C30_Witness ==
  \E l \in shareLinks :
    /\ createLog[l.linkId].days = <<-1>>
    /\ l.expiryDate[1] < l.createdDate
    /\ l.ttl = <<>>
    /\ l.createdDate > 0

\* No request is between its first step and its answer.
Quiet == \A p \in Procs : procs[p].pc \in {"idle", "done"}

\* C31: whenever no request is in progress, every stored share link names a
\* file whose record is still stored.
C31_NoDanglingLink ==
  Quiet => \A l \in shareLinks : \E f \in files : f.fileId = l.fileId

\* The messages of a resolution that ended at the lookup, the validity check,
\* the file check or the minting.
EarlyFailures ==
  {"Failed to get share link", "Share link not found",
   "Share link is expired or revoked", "Failed to get file",
   "File not found or deleted", "Failed to generate blob access URL"}

\* C32: the steps of a resolution up to the minting change nothing in the
\* store; a resolution writes a share link only once it holds the link, the
\* file and a minted URL; and the step on which a resolution ends at the
\* lookup, the validity check, the file check or the minting leaves share
\* links, files and blobs as they were.
C32_AccessRecordedAfterMinting ==
  [][\A p \in Procs :
       (procs'[p].op = "getFileByShareLink" /\ procs'[p] # procs[p])
       => /\ procs[p].pc \in {"idle", "r_file"}
             => shareLinks' = shareLinks /\ files' = files /\ blobs' = blobs
          /\ shareLinks' # shareLinks
             => /\ procs[p].shareLink # <<>>
                /\ procs[p].file # <<>>
                /\ procs[p].downloadUrl # <<>>
          /\ (procs'[p].pc = "done" /\ procs'[p].result \in EarlyFailures)
             => /\ procs[p].pc \in {"idle", "r_file"}
                /\ procs'[p].downloadUrl = <<>>
                /\ shareLinks' = shareLinks]_vars

\* A resolution of a stored valid link ended at the file check, the file being
\* deleted, and the link's access count is still zero.
C32_Witness ==
  \E p \in Procs :
    /\ ResolveDone(p)
    /\ procs[p].result = "File not found or deleted"
    /\ ~procs[p].faulted
    /\ \E l \in shareLinks :
         /\ l.linkId = procs[p].linkId
         /\ isShareLinkValid(l, now)
         /\ l.accessCount = 0

\* The stored record of the link the request of p names, before and after
\* the step.
Read(p) == CHOOSE l \in shareLinks : l.linkId = procs[p].linkId

Written(p) == CHOOSE l \in shareLinks' : l.linkId = procs[p].linkId

\* C33: a step of a request writes no share link but the one the request
\* names, and no file record; the copy a revocation makes of the record it
\* reads differs from it in isRevoked alone, the copy a resolution makes in
\* accessCount alone, one more; and the write stores that copy.
C33_OneFieldOfOneRecord ==
  [][\A p \in Procs :
       procs'[p] # procs[p]
       => /\ files' = files
          /\ {l \in shareLinks : l.linkId # procs'[p].linkId}
               = {l \in shareLinks' : l.linkId # procs'[p].linkId}
          /\ (procs[p].pc = "u_read" /\ procs'[p].pc = "u_exist")
             => procs'[p].doc[1] =
                  IF procs[p].op = "revokeShareLink"
                  THEN [Read(p) EXCEPT !.isRevoked = TRUE]
                  ELSE [Read(p) EXCEPT !.accessCount = @ + 1]
          /\ (procs[p].pc = "u_replace" /\ procs'[p].result = "OK")
             => Fields(Written(p)) = Fields(procs[p].doc[1])]_vars

\* Of two stored links one was revoked after a resolution and the other was
\* resolved and is not revoked.
C33_Witness ==
  /\ \E l, m \in shareLinks :
       /\ l.linkId # m.linkId
       /\ l.isRevoked /\ l.accessCount = 1
       /\ ~m.isRevoked /\ m.accessCount = 1
  /\ \E p \in Procs : RevokeDone(p) /\ procs[p].result = "OK"

\* C34: no step changes the expiryDate or the createdDate of a stored link,
\* the clock never goes back, and a stored link that fails validation without
\* being revoked, that is because of its expiry, fails it after every step
\* that leaves it stored.
C34_ExpiredIsTerminal ==
  [][/\ now' >= now
     /\ \A l \in shareLinks, m \in shareLinks' :
          m.linkId = l.linkId
          => /\ m.expiryDate = l.expiryDate
             /\ m.createdDate = l.createdDate
             /\ (~l.isRevoked /\ ~isShareLinkValid(l, now))
                => ~isShareLinkValid(m, now')]_vars

\* A link created with a duration was resolved once, expired, and a later
\* resolution was refused; the link is not revoked.
C34_Witness ==
  /\ \E l \in shareLinks :
       /\ CreatedWithDays(l.linkId)
       /\ ~l.isRevoked
       /\ l.accessCount = 1
       /\ now > l.expiryDate[1]
  /\ \E p \in Procs :
       /\ ResolveDone(p)
       /\ procs[p].result = "Share link is expired or revoked"

\* A call of the request of p failed on this step, the first of its calls
\* to fail.
FirstFailure(p) == procs'[p].faulted /\ ~procs[p].faulted

\* C35: a deleteBlob that fails does not end deleteFile, and a deleteFile
\* that ended OK with the blob left behind has removed the file record and
\* every share link of the file; a call of the cascade or of the deletion of
\* the file record that fails ends deleteFile with an error.
C35_BlobBestEffortRestSurfaced ==
  /\ [](\A p \in Procs :
          (DeleteFileDone(p) /\ procs[p].result = "OK"
             /\ procs[p].fileId \in blobs)
          => /\ \A f \in files : f.fileId # procs[p].fileId
             /\ \A l \in shareLinks : l.fileId # procs[p].fileId)
  /\ [][\A p \in Procs :
          (procs'[p].op = "deleteFile" /\ FirstFailure(p))
          => IF procs[p].pc = "d_blob"
             THEN procs'[p].pc = "d_query"
             ELSE IF procs[p].pc \in {"d_query", "d_loop", "d_delete", "d_hard"}
             THEN procs'[p].pc = "done" /\ procs'[p].result # "OK"
             ELSE TRUE]_vars

\* The request of p is a listing by file that p's step has just begun.
ListByFileBegun(p) ==
  /\ procs[p].pc = "idle"
  /\ procs'[p].op = "getShareLinksByFileId"

\* C36: a listing by owner returns only links whose stored userId is the
\* caller; a listing by file returns only links of the requested file and only
\* to the owner of the file; asked for a file that is not stored, it ends
\* with File not found.
C36_ListingsIsolated ==
  /\ [](\A p \in Procs :
          ListDone(p)
          => IF procs[p].op = "getUserShareLinks"
             THEN \A l \in procs[p].listing : l.userId = procs[p].userId
             ELSE /\ \A l \in procs[p].listing : l.fileId = procs[p].fileId
                  /\ \E f \in files : /\ f.fileId = procs[p].fileId
                                       /\ f.userId = procs[p].userId)
  /\ [][\A p \in Procs :
          (/\ ListByFileBegun(p)
           /\ ~procs'[p].faulted
           /\ \A f \in files : f.fileId # procs'[p].fileId)
          => /\ procs'[p].pc = "done"
             /\ procs'[p].result = "File not found"]_vars

\* A listing by owner returned links while a link of somebody else is stored,
\* on another file.
C36_Witness ==
  \E p \in Procs :
    /\ ListDone(p)
    /\ procs[p].op = "getUserShareLinks"
    /\ procs[p].listing # {}
    /\ \E l \in shareLinks :
         l.userId # procs[p].userId /\ l \notin procs[p].listing
    /\ \A l \in procs[p].listing, m \in shareLinks \ procs[p].listing :
         l.fileId # m.fileId

\* The status a share route answers with: 201 or 200 to a result, and to a
\* thrown message what its catch block reads off it, in the block's order.
ShareStatus(op, result) ==
  IF result = "OK" THEN (IF op = "createShareLink" THEN 201 ELSE 200)
  ELSE IF op = "getUserShareLinks" THEN 500
  ELSE IF SaysNotFound(result) THEN 404
  ELSE IF op = "getFileByShareLink"
       THEN (IF SaysExpired(result) \/ SaysRevoked(result) THEN 410 ELSE 400)
  ELSE IF SaysUnauthorized(result) THEN 401
  ELSE 400

\* The share endpoints that check an owner or a validity.
ShareEndpoints ==
  {"createShareLink", "getFileByShareLink", "revokeShareLink",
   "getShareLinksByFileId"}

\* The repository's read of a revocation finds, with the store answering,
\* that the link the service has read is stored no more.
LinkGoneAtRepoRead(p) ==
  /\ procs[p].op = "revokeShareLink"
  /\ procs[p].pc = "u_read"
  /\ procs'[p].pc = "done"
  /\ ~procs'[p].faulted
  /\ \A l \in shareLinks : l.linkId # procs[p].linkId

\* C37: a failure of a share endpoint that is a missing link or file is
\* answered 404, a caller who is not the owner 401, an expired or revoked link
\* 410, the sharing of a file that is not active 400; a revocation whose link
\* has disappeared between the service's read and the repository's read is
\* answered 404 as well.
C37_FailuresKeepTheirStatus ==
  /\ [](\A p \in Procs :
          (procs[p].pc = "done" /\ procs[p].op \in ShareEndpoints)
          => LET status == ShareStatus(procs[p].op, procs[p].result) IN
             /\ procs[p].result \in {"Share link not found", "File not found",
                                     "File not found or deleted"}
                => status = 404
             /\ procs[p].result \in {"Unauthorized access",
                                     "Unauthorized access to file"}
                => status = 401
             /\ procs[p].result = "Share link is expired or revoked"
                => status = 410
             /\ procs[p].result = "Cannot share deleted file" => status = 400)
  /\ [][\A p \in Procs :
          LinkGoneAtRepoRead(p)
          => ShareStatus(procs'[p].op, procs'[p].result) = 404]_vars

InLoop(req) == req.op = "deleteFile" /\ req.pc \in {"d_loop", "d_delete"}

\* C39: a request that has begun ends, with a result or an error, when every
\* call it awaits returns or fails; the loop of the cascade takes each link
\* of its list once, the list never growing while other requests create links
\* for the file, and leaves the loop only at the end of the list or with an
\* error.
C39_OperationsComplete ==
  /\ \A p \in Procs :
       (procs[p].pc \notin {"idle", "done"}) ~> (procs[p].pc = "done")
  /\ [][\A p \in Procs :
          (InLoop(procs[p]) /\ procs'[p] # procs[p])
          => \/ procs'[p].pc = "done" /\ procs'[p].result # "OK"
             \/ /\ procs[p].pc = "d_loop"
                /\ procs'[p].pc = "d_delete"
                /\ procs'[p].linkId \in procs[p].todo
                /\ procs'[p].todo = procs[p].todo
             \/ /\ procs'[p].pc = "d_loop"
                /\ procs'[p].todo # procs[p].todo
                /\ procs'[p].todo \subseteq procs[p].todo
                /\ procs[p].pc = "d_delete"
                   => procs'[p].todo = procs[p].todo \ {procs[p].linkId}
             \/ /\ procs[p].pc = "d_loop"
                /\ procs[p].todo = {}
                /\ ~InLoop(procs'[p])]_vars

\* The cascade is in its loop with links left to visit while a link of the
\* file, created since the list was made, is stored beside them.
C39_Witness ==
  \E p \in Procs :
    /\ InLoop(procs[p])
    /\ procs[p].todo # {}
    /\ \E l \in shareLinks :
         /\ l.fileId = procs[p].fileId
         /\ ~l.isRevoked
         /\ l.linkId \notin procs[p].todo
         /\ \A m \in procs[p].todo : m < l.linkId

====
